---- MODULE Spec2Model ----
(***************************************************************************)
(* Model of the XCDP event-ingestion contract (src/src/lib.rs).            *)
(*                                                                         *)
(* The contract keeps one aggregate, XCDPCore { events, total_events }.    *)
(* `events` is an l1x_sdk LookupMap: a storage-backed map that is          *)
(* identified by a key prefix.  Only the prefix is part of the serialized  *)
(* aggregate; every entry lives in host storage under prefix ++ key and is *)
(* written when the map is flushed (at the end of a call that returns).    *)
(* Host storage is therefore modelled as one key/value function holding    *)
(* both the aggregate slot ("message") and the map entries ("events"...).  *)
(*                                                                         *)
(* Strings and byte vectors are sequences of byte values (0..255).         *)
(* A panic aborts the call; nothing the call has not yet written reaches   *)
(* storage.                                                                *)
(***************************************************************************)
EXTENDS Integers, Sequences, FiniteSets, TLC

VARIABLES storage, lastCall, calls, inits, okKeys, savedContract,
          pc, local, overlapped

\* the variables of calls in progress (used when calls may interleave)
raceVars == <<pc, local, overlapped>>

vars == <<storage, lastCall, calls, inits, okKeys, savedContract, pc, local, overlapped>>

(***************************************************************************)
(* Bounds of the model.                                                    *)
(***************************************************************************)
\* number of entry-point calls explored in one execution
MaxCalls == 4

(***************************************************************************)
(* Byte-level helpers.                                                     *)
(***************************************************************************)
\* b"message"
STORAGE_CONTRACT_KEY == <<109, 101, 115, 115, 97, 103, 101>>
\* b"events"
STORAGE_EVENTS_KEY == <<101, 118, 101, 110, 116, 115>>

RECURSIVE LeBytes(_, _)
\* little-endian encoding of n on k bytes (borsh integers)
LeBytes(n, k) == IF k = 0 THEN <<>> ELSE <<n % 256>> \o LeBytes(n \div 256, k - 1)

RECURSIVE FromLe(_)
\* value of a little-endian byte sequence
FromLe(bytes) == IF bytes = <<>> THEN 0 ELSE Head(bytes) + 256 * FromLe(Tail(bytes))

RECURSIVE FromBe(_)
\* value of a big-endian byte sequence
FromBe(bytes) ==
    IF bytes = <<>> THEN 0
    ELSE bytes[Len(bytes)] + 256 * FromBe(SubSeq(bytes, 1, Len(bytes) - 1))

RECURSIVE Zeros(_)
Zeros(n) == IF n = 0 THEN <<>> ELSE <<0>> \o Zeros(n - 1)

\* borsh encoding of a String / Vec<u8>: u32 length, then the bytes
BorshBytes(s) == LeBytes(Len(s), 4) \o s

Ok(v) == [ok |-> TRUE, value |-> v]
Err(e) == [ok |-> FALSE, value |-> e]

(***************************************************************************)
(* XCDPSendMessage { message: String } and its borsh form.                 *)
(***************************************************************************)
XCDPSendMessage(message) == [message |-> message]

XCDPSendMessage_to_vec(event) == BorshBytes(event.message)

XCDPSendMessage_from_slice(bytes) ==
    IF Len(bytes) < 4 THEN Err("parse")
    ELSE LET n == FromLe(SubSeq(bytes, 1, 4)) IN
         IF Len(bytes) # 4 + n THEN Err("parse")
         ELSE Ok(XCDPSendMessage(SubSeq(bytes, 5, 4 + n)))

(***************************************************************************)
(* LookupMap<String, XCDPSendMessage>: prefix + write cache.               *)
(***************************************************************************)
EmptyMap == [k \in {} |-> <<>>]

LookupMap_new(prefix) == [prefix |-> prefix, cache |-> EmptyMap]

\* storage key of a map entry
LookupMap_storage_key(prefix, key) == prefix \o BorshBytes(key)

LookupMap_contains_key(map, st, key) ==
    \/ key \in DOMAIN map.cache
    \/ LookupMap_storage_key(map.prefix, key) \in DOMAIN st

\* unconditional write: an entry already under `key` is replaced
LookupMap_insert(map, key, value) ==
    [map EXCEPT !.cache = (key :> value) @@ map.cache]

LookupMap_get(map, st, key) ==
    IF key \in DOMAIN map.cache THEN Ok(map.cache[key])
    ELSE IF LookupMap_storage_key(map.prefix, key) \in DOMAIN st
         THEN XCDPSendMessage_from_slice(st[LookupMap_storage_key(map.prefix, key)])
         ELSE Err("absent")

\* writes every cached entry to storage (runs when the map is dropped)
LookupMap_flush(map, st) ==
    [sk \in { LookupMap_storage_key(map.prefix, k) : k \in DOMAIN map.cache } |->
        LET k == CHOOSE k \in DOMAIN map.cache : LookupMap_storage_key(map.prefix, k) = sk
        IN  XCDPSendMessage_to_vec(map.cache[k])] @@ st

\* number of storage_write calls a flush makes: one per cached entry
LookupMap_flush_writes(map) == Cardinality(DOMAIN map.cache)

(***************************************************************************)
(* XCDPCore: default, borsh form, load, save, new.                         *)
(***************************************************************************)
XCDPCore_default == [events |-> LookupMap_new(STORAGE_EVENTS_KEY), total_events |-> 0]

\* a variant that writes the counter on four bytes
XCDPCore_try_to_vec_u32(contract) ==
    BorshBytes(contract.events.prefix) \o LeBytes(contract.total_events, 4)

\* derive(BorshSerialize): the map contributes its prefix, then the u64
XCDPCore_try_to_vec(contract) ==
    BorshBytes(contract.events.prefix) \o LeBytes(contract.total_events, 8)

\* derive(BorshDeserialize); try_from_slice rejects short and trailing input
XCDPCore_try_from_slice(bytes) ==
    IF Len(bytes) < 4 THEN Err("Unable to parse contract bytes")
    ELSE LET n == FromLe(SubSeq(bytes, 1, 4)) IN
         IF Len(bytes) # 4 + n + 8 THEN Err("Unable to parse contract bytes")
         ELSE Ok([events |-> LookupMap_new(SubSeq(bytes, 5, 4 + n)),
                  total_events |-> FromLe(SubSeq(bytes, 5 + n, 12 + n))])

storage_read(st, key) == IF key \in DOMAIN st THEN Ok(st[key]) ELSE Err("absent")

storage_write(st, key, value) == (key :> value) @@ st

\* a variant that falls back to the default aggregate when the slot is absent
load_or_default(st) ==
    LET bytes == storage_read(st, STORAGE_CONTRACT_KEY) IN
    IF bytes.ok THEN XCDPCore_try_from_slice(bytes.value)
    ELSE Ok(XCDPCore_default)

load(st) ==
    LET bytes == storage_read(st, STORAGE_CONTRACT_KEY) IN
    IF bytes.ok THEN XCDPCore_try_from_slice(bytes.value)
    ELSE Err("The contract isn't initialized")

save(contract, st) == storage_write(st, STORAGE_CONTRACT_KEY, XCDPCore_try_to_vec(contract))

\* a variant that also wipes the entries stored under the map's prefix
new_reset(st) ==
    LET contract == XCDPCore_default IN
    LookupMap_flush(contract.events, save(contract, EmptyMap))

\* new(): default aggregate, save, then the aggregate is dropped (flush)
new(st) ==
    LET contract == XCDPCore_default IN
    LookupMap_flush(contract.events, save(contract, st))

(***************************************************************************)
(* Decoding pipeline of save_event_data.                                   *)
(*                                                                         *)
(* event_data is represented by its parse: whether the vector is empty,    *)
(* whether it is valid base64 and, if so, whether the decoded text is a    *)
(* JSON object and which of the Log fields it carries.  Topics and data    *)
(* are byte sequences; the ABI layer is decoded byte by byte.              *)
(***************************************************************************)
base64_decode(event_data) ==
    IF event_data.base64_ok THEN Ok(event_data.text)
    ELSE Err("Can't decode base64 event_data")

\* serde_json::from_slice::<Log>: address, topics and data are required
\* fields, every topic is a 32-byte hash
serde_json_from_slice(text) ==
    IF /\ text.json_ok
       /\ {"address", "topics", "data"} \subseteq DOMAIN text.object
       /\ \A i \in 1..Len(text.object.topics) : Len(text.object.topics[i]) = 32
    THEN Ok([topics |-> text.object.topics, data |-> text.object.data])
    ELSE Err("Can't deserialize Log object")

\* one lower-case hexadecimal digit, as its ASCII byte
HexDigit(n) == IF n < 10 THEN 48 + n ELSE 87 + n

HexByte(b) == <<HexDigit(b \div 16), HexDigit(b % 16)>>

\* Display of a 32-byte hash: "0x", the first two bytes, the ellipsis U+2026 (in
\* UTF-8), the last two bytes
H256_to_string(h) ==
    <<48, 120>> \o HexByte(h[1]) \o HexByte(h[2]) \o <<226, 128, 166>>
        \o HexByte(h[31]) \o HexByte(h[32])

\* ethabi: the 32-byte word at `offset`
peek_32_bytes(data, offset) ==
    IF offset + 32 > Len(data) THEN Err("abi") ELSE Ok(SubSeq(data, offset + 1, offset + 32))

\* ethabi: a word as usize; the upper 28 bytes must be zero
as_usize(word) ==
    IF \E i \in 1..28 : word[i] # 0 THEN Err("abi") ELSE Ok(FromBe(SubSeq(word, 29, 32)))

take_bytes(data, offset, len) ==
    IF offset + len > Len(data) THEN Err("abi") ELSE Ok(SubSeq(data, offset + 1, offset + len))

\* decode(&[ParamType::String], data): head word = offset of the tail, tail =
\* length word followed by the bytes of the string
abi_decode_string(data) ==
    LET head == peek_32_bytes(data, 0) IN
    IF ~head.ok THEN head ELSE
    LET offset == as_usize(head.value) IN
    IF ~offset.ok THEN offset ELSE
    LET lenword == peek_32_bytes(data, offset.value) IN
    IF ~lenword.ok THEN lenword ELSE
    LET len == as_usize(lenword.value) IN
    IF ~len.ok THEN len ELSE
    take_bytes(data, offset.value + 32, len.value)

\* From<XCDPSendMessageSolidity> for XCDPSendMessage
XCDPSendMessage_from(event) == XCDPSendMessage(event.message)

(***************************************************************************)
(* Event store operations and the ingestion handler.                       *)
(***************************************************************************)
\* a variant that joins the two parts without the separator
to_key_no_separator(global_tx_id, event_type) == global_tx_id \o event_type

to_key(global_tx_id, event_type) == global_tx_id \o <<45>> \o event_type

\* a variant that inserts without counting
save_message_event_no_count(contract, global_tx_id, event_id, event) ==
    LET key == to_key(global_tx_id, event_id) IN
    [events |-> LookupMap_insert(contract.events, key, event),
     total_events |-> contract.total_events]

save_message_event(contract, global_tx_id, event_id, event) ==
    LET key == to_key(global_tx_id, event_id) IN
    [events |-> LookupMap_insert(contract.events, key, event),
     total_events |-> contract.total_events + 1]

\* a variant without the two emptiness assertions
validate_inputs_no_empty_check(contract, st, event_data, global_tx_id) ==
    IF LookupMap_contains_key(contract.events, st, global_tx_id)
    THEN Err("event is saved already")
    ELSE Ok(TRUE)

\* lines 106-111: the three assertions, in the order the code makes them.
\* The duplicate test looks global_tx_id itself up in the map.
validate_inputs(contract, st, event_data, global_tx_id) ==
    IF global_tx_id = <<>> THEN Err("global_tx_id cannot be empty") ELSE
    IF event_data.is_empty THEN Err("event_data cannot be empty") ELSE
    IF LookupMap_contains_key(contract.events, st, global_tx_id)
    THEN Err("event is saved already")
    ELSE Ok(TRUE)

\* lines 113-130: base64, JSON Log, topics[0] as text, ABI string
decode_event(event_data) ==
    LET decoded == base64_decode(event_data) IN
    IF ~decoded.ok THEN decoded ELSE
    LET log == serde_json_from_slice(decoded.value) IN
    IF ~log.ok THEN log ELSE
    IF Len(log.value.topics) = 0 THEN Err("index out of bounds") ELSE
    LET decoded_event_data == abi_decode_string(log.value.data) IN
    IF ~decoded_event_data.ok THEN Err("abi decode") ELSE
    Ok([event_id |-> H256_to_string(log.value.topics[1]),
        event |-> [message |-> decoded_event_data.value]])

\* a panic: the call ends with storage as it is at that point; every panic
\* of the handler precedes its first storage_write
Panic(st, contract, msg) ==
    [outcome |-> msg, storage |-> st, contract |-> contract, writes |-> 0]

\* a variant that counts and saves the event on receipt, before decoding it
save_event_data_early_save(st, event_data, global_tx_id) ==
    LET loaded == load(st) IN
    IF ~loaded.ok THEN Panic(st, XCDPCore_default, loaded.value) ELSE
    LET contract == loaded.value
        valid == validate_inputs(contract, st, event_data, global_tx_id)
    IN
    IF ~valid.ok THEN Panic(st, contract, valid.value) ELSE
    LET counted == [contract EXCEPT !.total_events = @ + 1]
        st1 == save(counted, st)
        decoded == decode_event(event_data)
    IN
    IF ~decoded.ok THEN [Panic(st1, counted, decoded.value) EXCEPT !.writes = 1] ELSE
    LET updated == save_message_event(contract, global_tx_id, decoded.value.event_id,
                                      XCDPSendMessage_from(decoded.value.event))
        saved == save(updated, st1)
    IN  [outcome |-> "ok", storage |-> LookupMap_flush(updated.events, saved),
         contract |-> updated, writes |-> 2 + LookupMap_flush_writes(updated.events)]

\* a variant that returns without saving the aggregate
save_event_data_no_save(st, event_data, global_tx_id) ==
    LET loaded == load(st) IN
    IF ~loaded.ok THEN Panic(st, XCDPCore_default, loaded.value) ELSE
    LET contract == loaded.value
        valid == validate_inputs(contract, st, event_data, global_tx_id)
    IN
    IF ~valid.ok THEN Panic(st, contract, valid.value) ELSE
    LET decoded == decode_event(event_data) IN
    IF ~decoded.ok THEN Panic(st, contract, decoded.value) ELSE
    LET updated == save_message_event(contract, global_tx_id, decoded.value.event_id,
                                      XCDPSendMessage_from(decoded.value.event))
    IN  [outcome |-> "ok", storage |-> LookupMap_flush(updated.events, st),
         contract |-> updated, writes |-> LookupMap_flush_writes(updated.events)]

\* The whole handler.  Result: the outcome ("ok" or the panic message),
\* storage as the call leaves it, the aggregate the call held last, and the
\* number of storage_write calls made: one in save(), then those of the flush
\* when the aggregate is dropped at return.
save_event_data(st, event_data, global_tx_id) ==
    LET loaded == load(st) IN
    IF ~loaded.ok THEN Panic(st, XCDPCore_default, loaded.value) ELSE
    LET contract == loaded.value
        valid == validate_inputs(contract, st, event_data, global_tx_id)
    IN
    IF ~valid.ok THEN Panic(st, contract, valid.value) ELSE
    LET decoded == decode_event(event_data) IN
    IF ~decoded.ok THEN Panic(st, contract, decoded.value) ELSE
    LET updated == save_message_event(contract, global_tx_id, decoded.value.event_id,
                                      XCDPSendMessage_from(decoded.value.event))
        saved == save(updated, st)
    IN  [outcome |-> "ok", storage |-> LookupMap_flush(updated.events, saved),
         contract |-> updated, writes |-> 1 + LookupMap_flush_writes(updated.events)]

(***************************************************************************)
(* Inputs of the entry points.                                             *)
(***************************************************************************)
\* a 32-byte word holding n (big-endian), as the ABI lays it out
AbiWord(n) == Zeros(28) \o <<(n \div 16777216) % 256, (n \div 65536) % 256,
                             (n \div 256) % 256, n % 256>>

\* the ABI encoding of one string parameter
abi_encode_string(s) ==
    AbiWord(32) \o AbiWord(Len(s)) \o s \o Zeros((32 - (Len(s) % 32)) % 32)

\* three topics: TopicB differs from TopicA in a middle byte only
TopicA == <<171, 205>> \o Zeros(28) \o <<239, 18>>
TopicB == <<171, 205, 7>> \o Zeros(27) \o <<239, 18>>
TopicC == <<18, 52>> \o Zeros(28) \o <<86, 120>>

\* "hello", "world", "hi"
MsgHello == <<104, 101, 108, 108, 111>>
MsgWorld == <<119, 111, 114, 108, 100>>
MsgHi == <<104, 105>>

\* well-formed event_data: base64 of the JSON of a Log
LogEventData(topics, data) ==
    [is_empty |-> FALSE, base64_ok |-> TRUE,
     text |-> [json_ok |-> TRUE,
               object |-> [address |-> Zeros(20), topics |-> topics, data |-> data]]]

EventDataEmpty == [is_empty |-> TRUE, base64_ok |-> TRUE, text |-> [json_ok |-> FALSE]]
EventDataBadBase64 == [is_empty |-> FALSE, base64_ok |-> FALSE]
EventDataNotJson == [is_empty |-> FALSE, base64_ok |-> TRUE, text |-> [json_ok |-> FALSE]]
EventDataNoTopics ==
    [is_empty |-> FALSE, base64_ok |-> TRUE,
     text |-> [json_ok |-> TRUE,
               object |-> [address |-> Zeros(20), data |-> abi_encode_string(MsgHello)]]]
EventDataEmptyTopics == LogEventData(<<>>, abi_encode_string(MsgHello))
\* data stops after the head word: the tail the head points to is missing
EventDataShortAbi == LogEventData(<<TopicA>>, AbiWord(32))

MalformedEventDatas ==
    {EventDataBadBase64, EventDataNotJson, EventDataNoTopics, EventDataEmptyTopics,
     EventDataShortAbi}

GoodEventDatas ==
    {LogEventData(<<TopicA>>, abi_encode_string(MsgHello)),
     LogEventData(<<TopicA>>, abi_encode_string(MsgWorld)),
     LogEventData(<<TopicB, TopicC>>, abi_encode_string(MsgHello)),
     LogEventData(<<TopicC>>, abi_encode_string(MsgHi))}

EventDatas == {EventDataEmpty} \cup MalformedEventDatas \cup GoodEventDatas

\* "tx", "ty"
TxId == <<116, 120>>
TyId == <<116, 121>>

\* the empty id, two plain ids, and an id that spells a composite key
GlobalTxIds == {<<>>, TxId, TyId, to_key(TxId, H256_to_string(TopicA))}

(***************************************************************************)
(* State machine: host storage and the record of the calls made.           *)
(*   storage       host key/value storage                                  *)
(*   lastCall      the most recent entry-point call, how it ended and how  *)
(*                 many storage_write calls it made                        *)
(*   calls         number of calls made                                    *)
(*   inits         number of calls of new()                                *)
(*   okKeys        composite keys of the successful save_event_data calls  *)
(*   savedContract the aggregate handed to the most recent save()          *)
(*   pc, local     position and in-memory data (arguments, loaded          *)
(*                 aggregate) of each call in progress, when the host lets *)
(*                 calls interleave; idle under serialized calls           *)
(*   overlapped    whether a call began while another was in progress      *)
(***************************************************************************)
NoCall == [op |-> "none", event_data |-> EventDataEmpty, global_tx_id |-> <<>>,
           outcome |-> "none", writes |-> 0]

\* the two callers of the relaxed host
Callers == {1, 2}

\* `start` records storage as it was when the call began
NoLocal == [event_data |-> EventDataEmpty, global_tx_id |-> <<>>,
            contract |-> XCDPCore_default, start |-> EmptyMap]

Init ==
    /\ storage = EmptyMap
    /\ lastCall = NoCall
    /\ calls = 0
    /\ inits = 0
    /\ okKeys = <<>>
    /\ savedContract = XCDPCore_default
    /\ pc = [p \in Callers |-> "idle"]
    /\ local = [p \in Callers |-> NoLocal]
    /\ overlapped = FALSE

\* the composite key a well-formed call stores under
KeyOf(event_data, global_tx_id) ==
    to_key(global_tx_id, H256_to_string(event_data.text.object.topics[1]))

Call_new ==
    /\ calls < MaxCalls
    /\ storage' = new(storage)
    /\ lastCall' = [NoCall EXCEPT !.op = "new", !.outcome = "ok",
                                  !.writes = 1 + LookupMap_flush_writes(XCDPCore_default.events)]
    /\ calls' = calls + 1
    /\ inits' = inits + 1
    /\ savedContract' = XCDPCore_default
    /\ UNCHANGED okKeys
    /\ UNCHANGED raceVars

Call_save_event_data(event_data, global_tx_id) ==
    LET r == save_event_data(storage, event_data, global_tx_id) IN
    /\ calls < MaxCalls
    /\ storage' = r.storage
    /\ lastCall' = [op |-> "save_event_data", event_data |-> event_data,
                    global_tx_id |-> global_tx_id, outcome |-> r.outcome,
                    writes |-> r.writes]
    /\ calls' = calls + 1
    /\ okKeys' = IF r.outcome = "ok"
                 THEN Append(okKeys, KeyOf(event_data, global_tx_id))
                 ELSE okKeys
    /\ savedContract' = IF r.outcome = "ok" THEN r.contract ELSE savedContract
    /\ UNCHANGED inits
    /\ UNCHANGED raceVars

Next ==
    \/ Call_new
    \/ \E event_data \in EventDatas, global_tx_id \in GlobalTxIds :
           Call_save_event_data(event_data, global_tx_id)

Spec == Init /\ [][Next]_vars

(***************************************************************************)
(* Relaxed host: two save_event_data calls whose steps may interleave on   *)
(* one initialized aggregate.  A call is the handler cut at its storage    *)
(* accesses: load (line 103), assertions + decoding + insert into the      *)
(* in-memory aggregate (lines 106-132, the duplicate assertion reads       *)
(* storage), save (line 134), return (the map is dropped and flushed).     *)
(***************************************************************************)
RaceEventDatas == GoodEventDatas \cup {EventDataBadBase64}

RaceIds == {TxId, TyId}

InProgress(p) == pc[p] \in {"loaded", "inserted", "saved"}

\* the aggregate exists: new() has run, nothing else has
InitRace ==
    /\ storage = new(EmptyMap)
    /\ lastCall = [NoCall EXCEPT !.op = "new", !.outcome = "ok", !.writes = 1]
    /\ calls = 1
    /\ inits = 1
    /\ okKeys = <<>>
    /\ savedContract = XCDPCore_default
    /\ pc = [p \in Callers |-> "idle"]
    /\ local = [p \in Callers |-> NoLocal]
    /\ overlapped = FALSE

\* line 103: the call starts and loads the aggregate
Race_load(p, event_data, global_tx_id) ==
    LET loaded == load(storage) IN
    /\ pc[p] = "idle"
    /\ pc' = [pc EXCEPT ![p] = IF loaded.ok THEN "loaded" ELSE "failed"]
    /\ local' = [local EXCEPT ![p] =
                    [event_data |-> event_data, global_tx_id |-> global_tx_id,
                     contract |-> IF loaded.ok THEN loaded.value ELSE XCDPCore_default,
                     start |-> storage]]
    /\ overlapped' = (overlapped \/ \E q \in Callers \ {p} : InProgress(q))
    /\ UNCHANGED <<storage, lastCall, calls, inits, okKeys, savedContract>>

\* lines 106-132: assertions, decoding, insert into the loaded aggregate
Race_check_insert(p) ==
    LET valid == validate_inputs(local[p].contract, storage, local[p].event_data,
                                 local[p].global_tx_id)
        decoded == decode_event(local[p].event_data)
    IN
    /\ pc[p] = "loaded"
    /\ IF valid.ok /\ decoded.ok
       THEN /\ pc' = [pc EXCEPT ![p] = "inserted"]
            /\ local' = [local EXCEPT ![p].contract =
                            save_message_event(local[p].contract, local[p].global_tx_id,
                                               decoded.value.event_id,
                                               XCDPSendMessage_from(decoded.value.event))]
       ELSE /\ pc' = [pc EXCEPT ![p] = "failed"]
            /\ UNCHANGED local
    /\ UNCHANGED <<storage, lastCall, calls, inits, okKeys, savedContract, overlapped>>

\* line 134: contract.save()
Race_save(p) ==
    /\ pc[p] = "inserted"
    /\ storage' = save(local[p].contract, storage)
    /\ savedContract' = local[p].contract
    /\ pc' = [pc EXCEPT ![p] = "saved"]
    /\ UNCHANGED <<lastCall, calls, inits, okKeys, local, overlapped>>

\* line 135: the call returns, the aggregate is dropped and its map flushed
Race_return(p) ==
    /\ pc[p] = "saved"
    /\ storage' = LookupMap_flush(local[p].contract.events, storage)
    /\ okKeys' = Append(okKeys, KeyOf(local[p].event_data, local[p].global_tx_id))
    /\ calls' = calls + 1
    /\ pc' = [pc EXCEPT ![p] = "done"]
    /\ UNCHANGED <<lastCall, inits, savedContract, local, overlapped>>

NextRace ==
    \E p \in Callers :
        \/ \E event_data \in RaceEventDatas, global_tx_id \in RaceIds :
               Race_load(p, event_data, global_tx_id)
        \/ Race_check_insert(p)
        \/ Race_save(p)
        \/ Race_return(p)

SpecRace == InitRace /\ [][NextRace]_vars

(***************************************************************************)
(* Views of the persisted aggregate.                                       *)
(***************************************************************************)
Initialized == STORAGE_CONTRACT_KEY \in DOMAIN storage

\* total_events of the persisted aggregate
total_events == load(storage).value.total_events

\* every composite key the ingestion handler can build from its inputs
AllKeys ==
    { to_key(g, H256_to_string(t)) : g \in GlobalTxIds \ {<<>>}, t \in {TopicA, TopicB, TopicC} }

\* contains(key) on the event map of the persisted aggregate
contains(key) == LookupMap_contains_key(load(storage).value.events, storage, key)

\* storage keys of the entries stored under the map's prefix
EntriesIn(st) ==
    { sk \in DOMAIN st :
        /\ Len(sk) >= Len(STORAGE_EVENTS_KEY)
        /\ SubSeq(sk, 1, Len(STORAGE_EVENTS_KEY)) = STORAGE_EVENTS_KEY }

EventEntries == EntriesIn(storage)

\* the message stored under a key, read through the persisted aggregate
message_in(st, key) == LookupMap_get(load(st).value.events, st, key)

message_of(key) == message_in(storage, key)

\* the panics of the argument assertions (lines 106-107)
ValidationErrors == {"global_tx_id cannot be empty", "event_data cannot be empty"}

\* the panics of the decoding steps (lines 113-130)
DecodeErrors ==
    {"Can't decode base64 event_data", "Can't deserialize Log object",
     "index out of bounds", "abi decode"}

\* the step is a call of save_event_data
SaveStep == calls' = calls + 1 /\ lastCall'.op = "save_event_data"

\* the keys of the successful ingestions
OkKeySet == { okKeys[i] : i \in 1..Len(okKeys) }

(***************************************************************************)
(* Claims.                                                                 *)
(***************************************************************************)

\* C1 (as claimed): on an initialized aggregate, a save_event_data call whose
\* composite key was already inserted by an earlier successful call fails
\* with the duplicate-key error and changes nothing in storage.
C1_DuplicateRejected ==
    [][(/\ SaveStep
        /\ Initialized
        /\ lastCall'.global_tx_id # <<>>
        /\ lastCall'.event_data \in GoodEventDatas
        /\ KeyOf(lastCall'.event_data, lastCall'.global_tx_id) \in OkKeySet)
       => (/\ lastCall'.outcome = "event is saved already"
           /\ storage' = storage)]_vars

\* C2: after exactly one new(), when the successful save_event_data calls
\* have pairwise distinct composite keys, total_events equals their number
\* and the store holds exactly that many entries.
C2_CounterConsistency ==
    (/\ inits = 1
     /\ Cardinality(OkKeySet) = Len(okKeys))
    => (/\ total_events = Len(okKeys)
        /\ Cardinality(EventEntries) = Len(okKeys)
        /\ \A k \in OkKeySet : contains(k))

\* two distinct successful ingestions and a failed call, after one new()
C2_Witness ==
    /\ inits = 1
    /\ Len(okKeys) = 2
    /\ Cardinality(OkKeySet) = 2
    /\ calls = 4
    /\ total_events = 2

\* C3: a save_event_data call that fails, for whatever reason, leaves storage
\* (the aggregate slot and every map entry) exactly as it was.
C3_AtomicFailure ==
    [][(SaveStep /\ lastCall'.outcome # "ok") => storage' = storage]_vars

\* a decode failure on an aggregate that already holds an event
C3_Witness ==
    /\ lastCall.op = "save_event_data"
    /\ lastCall.outcome \in DecodeErrors
    /\ Initialized
    /\ okKeys # <<>>

\* C4: while the slot is absent every save_event_data call fails with the
\* not-initialized panic and writes nothing; new() makes the aggregate
\* initialized, and no later call makes the slot absent again.
C4_InitializeBeforeUse ==
    [][/\ (SaveStep /\ ~Initialized)
            => (/\ lastCall'.outcome = "The contract isn't initialized"
                /\ storage' = storage)
       /\ (calls' = calls + 1 /\ lastCall'.op = "new") => Initialized'
       /\ Initialized => Initialized']_vars

\* an otherwise valid call rejected because the slot is absent
C4_Witness ==
    /\ ~Initialized
    /\ lastCall.op = "save_event_data"
    /\ lastCall.global_tx_id # <<>>
    /\ lastCall.event_data \in GoodEventDatas
    /\ lastCall.outcome = "The contract isn't initialized"

\* C5: a composite key that the store contains is contained in every later
\* state, whatever call follows (successful or failed save_event_data, new()).
C5_PermanentLedger ==
    [][Initialized =>
         /\ Initialized'
         /\ LET before == load(storage).value.events
                after == load(storage').value.events
            IN  \A k \in AllKeys :
                    LookupMap_contains_key(before, storage, k)
                        => LookupMap_contains_key(after, storage', k)]_vars

\* a key inserted earlier is still contained right after a further new()
C5_Witness ==
    /\ lastCall.op = "new"
    /\ inits >= 2
    /\ okKeys # <<>>
    /\ contains(okKeys[1])

\* C6: a successful save_event_data(ev, id), ev carrying topics t and the ABI
\* encoding of the string m, stores m under id + "-" + text of t[0], adds
\* exactly one to total_events and leaves every other entry as it was.
C6_SuccessEffect ==
    [][(SaveStep /\ lastCall'.outcome = "ok") =>
         \A t \in {<<TopicA>>, <<TopicB, TopicC>>, <<TopicC>>},
            m \in {MsgHello, MsgWorld, MsgHi} :
            lastCall'.event_data = LogEventData(t, abi_encode_string(m)) =>
              LET key == lastCall'.global_tx_id \o <<45>> \o H256_to_string(t[1])
                  sk == STORAGE_EVENTS_KEY \o BorshBytes(key)
              IN  /\ message_in(storage', key) = Ok(XCDPSendMessage(m))
                  /\ load(storage').value.total_events = total_events + 1
                  /\ EntriesIn(storage') = EventEntries \cup {sk}
                  /\ \A other \in EventEntries \ {sk} : storage'[other] = storage[other]]_vars

\* a successful ingestion into a store that already held another entry
C6_Witness ==
    /\ lastCall.op = "save_event_data"
    /\ lastCall.outcome = "ok"
    /\ Len(okKeys) >= 2
    /\ Cardinality(EventEntries) >= 2

\* C7: on an initialized aggregate, a call with an empty global_tx_id or an
\* empty event_data fails with a validation panic and changes nothing.
C7_ValidationRejection ==
    [][(/\ SaveStep
        /\ Initialized
        /\ (lastCall'.global_tx_id = <<>> \/ lastCall'.event_data.is_empty))
       => (/\ lastCall'.outcome \in ValidationErrors
           /\ storage' = storage)]_vars

\* an empty event_data rejected on an aggregate that holds an event
C7_Witness ==
    /\ lastCall.op = "save_event_data"
    /\ lastCall.global_tx_id # <<>>
    /\ lastCall.event_data.is_empty
    /\ lastCall.outcome = "event_data cannot be empty"
    /\ okKeys # <<>>

\* C8 (as claimed): on an initialized aggregate, a call with a non-empty
\* global_tx_id whose event_data is malformed (bad base64, JSON without
\* topics, empty topics, short ABI data) fails with a decode error and
\* changes nothing.
C8_DecodeRejection ==
    [][(/\ SaveStep
        /\ Initialized
        /\ lastCall'.global_tx_id # <<>>
        /\ lastCall'.event_data \in MalformedEventDatas)
       => (/\ lastCall'.outcome \in DecodeErrors
           /\ storage' = storage)]_vars

\* C9 (as claimed): total_events never decreases, across any call.
C9_CounterMonotonic ==
    [][(Initialized /\ Initialized')
          => load(storage').value.total_events >= total_events]_vars

\* C10: the aggregate handed to the most recent save() is what load() returns
\* once the call has ended: same prefix, same total_events, and every entry it
\* held is read back through the loaded aggregate.
C10_RoundTrip ==
    Initialized =>
        /\ load(storage).ok
        /\ load(storage).value.events.prefix = savedContract.events.prefix
        /\ load(storage).value.total_events = savedContract.total_events
        /\ \A k \in DOMAIN savedContract.events.cache :
              message_of(k) = Ok(savedContract.events.cache[k])
        /\ load(save(load(storage).value, storage)) = load(storage)

\* the aggregate saved last held a freshly inserted entry and a count of two
C10_Witness ==
    /\ Initialized
    /\ savedContract.total_events = 2
    /\ DOMAIN savedContract.events.cache # {}

\* C11 (as claimed): right after any call of new(), the loaded aggregate has
\* total_events = 0 and its event map contains no key.
C11_NewIsEmpty ==
    lastCall.op = "new" =>
        /\ load(storage).ok
        /\ total_events = 0
        /\ \A k \in AllKeys : ~contains(k)
        /\ EventEntries = {}

\* C12 (as claimed): on an initialized aggregate, a call with a non-empty
\* global_tx_id and decodable event_data is rejected as a duplicate exactly
\* when its composite key is in the store, and succeeds when it is absent.
C12_DuplicateExact ==
    [][(/\ SaveStep
        /\ Initialized
        /\ lastCall'.global_tx_id # <<>>
        /\ lastCall'.event_data \in GoodEventDatas)
       => LET key == KeyOf(lastCall'.event_data, lastCall'.global_tx_id) IN
          /\ (lastCall'.outcome = "event is saved already") <=> contains(key)
          /\ ~contains(key) => lastCall'.outcome = "ok"]_vars

\* the storage keys whose value a step wrote anew or changed
ChangedKeys(before, after) ==
    { k \in DOMAIN after : k \notin DOMAIN before \/ after[k] # before[k] }

\* C13 (as claimed): a successful save_event_data call makes exactly one
\* storage write, a failed call none.
C13_OneWrite ==
    lastCall.op = "save_event_data" =>
        lastCall.writes = IF lastCall.outcome = "ok" THEN 1 ELSE 0

\* C13 (amended): a successful save_event_data call makes exactly two storage
\* writes, the aggregate slot and the inserted map entry, and touches no other
\* key; a failed call makes none and leaves storage as it was.
C13_TwoWrites ==
    [][SaveStep =>
         IF lastCall'.outcome = "ok"
         THEN LET sk == LookupMap_storage_key(STORAGE_EVENTS_KEY,
                           KeyOf(lastCall'.event_data, lastCall'.global_tx_id))
              IN  /\ lastCall'.writes = 2
                  /\ ChangedKeys(storage, storage') \subseteq {STORAGE_CONTRACT_KEY, sk}
                  /\ STORAGE_CONTRACT_KEY \in ChangedKeys(storage, storage')
                  /\ sk \in DOMAIN storage'
         ELSE /\ lastCall'.writes = 0
              /\ storage' = storage]_vars

\* a successful call that wrote both the slot and a new entry
C13_Witness ==
    /\ lastCall.op = "save_event_data"
    /\ lastCall.outcome = "ok"
    /\ lastCall.writes = 2
    /\ Cardinality(EventEntries) = 2

\* C15 (as claimed): on an initialized aggregate total_events equals the
\* number of distinct keys the event store contains.
C15_CountEqualsKeys ==
    Initialized =>
        /\ total_events = Cardinality(EventEntries)
        /\ total_events = Cardinality({ k \in AllKeys : contains(k) })

\* the event ids the handler can derive: the text of a topic
EventIds == { H256_to_string(t) : t \in {TopicA, TopicB, TopicC} }

\* ids the handler accepts, among them ids that contain the separator or
\* spell a whole composite key
AcceptedIds ==
    (GlobalTxIds \ {<<>>})
        \cup { TxId \o <<45>>, <<45>> \o TxId }
        \cup { to_key(TxId, e) : e \in EventIds }
        \cup { to_key(to_key(TxId, e), e) : e \in EventIds }

AcceptedPairs == AcceptedIds \X EventIds

\* to_key is injective on the pairs the handler accepts: every event id has
\* the same length and no separator in it
C16_KeyInjective ==
    \A p \in AcceptedPairs, q \in AcceptedPairs :
        p # q => to_key(p[1], p[2]) # to_key(q[1], q[2])

\* C16 (as claimed): two different (global_tx_id, event id) pairs never share
\* a storage key and never block or overwrite each other: a well-formed call
\* whose pair differs from every pair ingested so far succeeds, under a key
\* of its own, and leaves the entries of the earlier pairs as they were.
C16_NoCollisionNoBlock ==
    [][(/\ SaveStep
        /\ Initialized
        /\ lastCall'.global_tx_id # <<>>
        /\ lastCall'.event_data \in GoodEventDatas
        /\ KeyOf(lastCall'.event_data, lastCall'.global_tx_id) \notin OkKeySet)
       => (/\ C16_KeyInjective
           /\ lastCall'.outcome = "ok"
           /\ \A sk \in EventEntries : sk \in DOMAIN storage' /\ storage'[sk] = storage[sk])]_vars

C14_RaceDuplicate ==
    /\ overlapped
    /\ \A p \in Callers : pc[p] = "done"
    /\ Len(okKeys) = 2
    /\ Cardinality(OkKeySet) = 1

\* the same happens without any overlap: the duplicate assertion looks up
\* global_tx_id (see C1), so this state does not arise from interleaving
C14_SerialDuplicate ==
    /\ ~overlapped
    /\ \A p \in Callers : pc[p] = "done"
    /\ Len(okKeys) = 2
    /\ Cardinality(OkKeySet) = 1

====
